---- MODULE Spec2Model ----
(***************************************************************************)
(* A model of the BlackScan product normalizer                             *)
(* (src/BlackScan/data-normalizer/normalize.py).                           *)
(*                                                                         *)
(* Text is modelled by TLA+ strings, character by character: the Python    *)
(* string methods and the regular expressions the normalizer uses are      *)
(* operators over strings that compute what the Python code computes.      *)
(* Python dicts that keep insertion order (the two maps) are sequences of  *)
(* <<key, label>> pairs; a raw product (a decoded JSON object) is a        *)
(* function from the field names it has to tagged JSON values.             *)
(***************************************************************************)
EXTENDS Integers, Sequences, FiniteSets, TLC

(***************************************************************************)
(* Python str primitives                                                   *)
(***************************************************************************)

\* s[i-1] in Python: the i-th character as a one-character string.
Char(s, i) == SubSeq(s, i, i)

\* s[i-1:] in Python.
From(s, i) == SubSeq(s, i, Len(s))

\* Characters matched by \s.
WhiteSpace == {" ", "\t", "\n"}

LowerLetters ==
  {"a","b","c","d","e","f","g","h","i","j","k","l","m",
   "n","o","p","q","r","s","t","u","v","w","x","y","z"}

UpperToLower ==
  ("A" :> "a") @@ ("B" :> "b") @@ ("C" :> "c") @@ ("D" :> "d") @@ ("E" :> "e") @@
  ("F" :> "f") @@ ("G" :> "g") @@ ("H" :> "h") @@ ("I" :> "i") @@ ("J" :> "j") @@
  ("K" :> "k") @@ ("L" :> "l") @@ ("M" :> "m") @@ ("N" :> "n") @@ ("O" :> "o") @@
  ("P" :> "p") @@ ("Q" :> "q") @@ ("R" :> "r") @@ ("S" :> "s") @@ ("T" :> "t") @@
  ("U" :> "u") @@ ("V" :> "v") @@ ("W" :> "w") @@ ("X" :> "x") @@ ("Y" :> "y") @@
  ("Z" :> "z")

Digits == {"0","1","2","3","4","5","6","7","8","9"}

\* Characters matched by \w.
WordChars == LowerLetters \cup DOMAIN UpperToLower \cup Digits \cup {"_"}

\* c.lower() for one character.
LowerChar(c) == IF c \in DOMAIN UpperToLower THEN UpperToLower[c] ELSE c

\* s.lower()
RECURSIVE Lower(_)
Lower(s) == IF s = "" THEN "" ELSE LowerChar(Char(s, 1)) \o Lower(From(s, 2))

\* s.lstrip()
RECURSIVE LStrip(_)
LStrip(s) ==
  IF s # "" /\ Char(s, 1) \in WhiteSpace THEN LStrip(From(s, 2)) ELSE s

\* s.rstrip()
RECURSIVE RStrip(_)
RStrip(s) ==
  IF s # "" /\ Char(s, Len(s)) \in WhiteSpace
  THEN RStrip(SubSeq(s, 1, Len(s) - 1))
  ELSE s

\* s.strip()
Strip(s) == RStrip(LStrip(s))

\* sub in s
Contains(s, sub) ==
  \E i \in 1..(Len(s) - Len(sub) + 1) : SubSeq(s, i, i + Len(sub) - 1) = sub

\* any(kw in s for kw in kws)
ContainsAny(s, kws) == \E kw \in kws : Contains(s, kw)

\* The length of the run of non-whitespace characters that starts s.
RECURSIVE TokenLen(_)
TokenLen(s) ==
  IF s # "" /\ Char(s, 1) \notin WhiteSpace THEN 1 + TokenLen(From(s, 2)) ELSE 0

\* set(s.split()): the maximal runs of non-whitespace characters.
RECURSIVE SplitWords(_)
SplitWords(s) ==
  IF s = "" THEN {}
  ELSE LET n == TokenLen(s) IN
         IF n = 0 THEN SplitWords(From(s, 2))
         ELSE {SubSeq(s, 1, n)} \cup SplitWords(From(s, n + 1))

(***************************************************************************)
(* Regular expressions of the normalizer                                   *)
(***************************************************************************)

\* re.sub(r'\s+', ' ', s): every maximal run of whitespace becomes one space.
RECURSIVE CollapseSpaces(_)
CollapseSpaces(s) ==
  IF s = "" THEN ""
  ELSE IF Char(s, 1) \in WhiteSpace
       THEN " " \o CollapseSpaces(LStrip(s))
       ELSE Char(s, 1) \o CollapseSpaces(From(s, 2))

\* re.sub(r'[^\w\s]', ' ', s): every punctuation character becomes a space.
RECURSIVE StripPunctuation(_)
StripPunctuation(s) ==
  IF s = "" THEN ""
  ELSE (IF Char(s, 1) \in WordChars \cup WhiteSpace THEN Char(s, 1) ELSE " ")
       \o StripPunctuation(From(s, 2))

\* The index of the first '>' of s at or after position i, 0 if there is none.
RECURSIVE FirstClose(_, _)
FirstClose(s, i) ==
  IF i > Len(s) THEN 0
  ELSE IF Char(s, i) = ">" THEN i ELSE FirstClose(s, i + 1)

\* re.sub(r'<[^>]+>', ' ', s): every tag-like substring becomes a space.
RECURSIVE StripTags(_)
StripTags(s) ==
  IF s = "" THEN ""
  ELSE IF Char(s, 1) = "<" /\ FirstClose(s, 2) > 2
       THEN " " \o StripTags(From(s, FirstClose(s, 2) + 1))
       ELSE Char(s, 1) \o StripTags(From(s, 2))

\* Whether position k of s holds a word character (False outside the string).
IsWordAt(s, k) == k \in 1..Len(s) /\ Char(s, k) \in WordChars

\* \b between the characters p and p+1 of s (p = 0: the start of the string).
WordBoundary(s, p) == IsWordAt(s, p) # IsWordAt(s, p + 1)

\* \bw\b matches s with w starting at position i.
BoundedAt(s, w, i) ==
  /\ i >= 1
  /\ i + Len(w) - 1 <= Len(s)
  /\ SubSeq(s, i, i + Len(w) - 1) = w
  /\ WordBoundary(s, i - 1)
  /\ WordBoundary(s, i + Len(w) - 1)

\* re.search(r'\b' + re.escape(w) + r'\b', s)
WordBounded(s, w) == \E i \in 1..(Len(s) + 1) : BoundedAt(s, w, i)

\* The length of the run of word characters that starts s.
RECURSIVE WordRunLen(_)
WordRunLen(s) ==
  IF s # "" /\ Char(s, 1) \in WordChars THEN 1 + WordRunLen(From(s, 2)) ELSE 0

\* re.findall(r'\b\w+\b', s): the maximal runs of word characters, in order.
RECURSIVE FindWords(_)
FindWords(s) ==
  IF s = "" THEN <<>>
  ELSE LET n == WordRunLen(s) IN
         IF n = 0 THEN FindWords(From(s, 2))
         ELSE <<SubSeq(s, 1, n)>> \o FindWords(From(s, n + 1))

(***************************************************************************)
(* Decoded JSON values and Python conversions                              *)
(***************************************************************************)

\* A JSON string, number, null and object as Python decodes them.
\* Each is a record with one field, named by the Python type.
Str(s) == [str |-> s]
Num(n) == [num |-> n]
Null == [null |-> 0]
Obj(f) == [obj |-> f]
\* A Python list of decoded values.
List(xs) == [list |-> xs]

\* The Python type of a decoded value, and the value it wraps.
TypeOf(x) == CHOOSE k \in DOMAIN x : TRUE
Val(x) == x[TypeOf(x)]

\* isinstance(x, str)
IsStr(x) == TypeOf(x) = "str"

\* bool(x): the empty string, zero, None and the empty dict are falsy.
Truthy(x) ==
  CASE TypeOf(x) = "str" -> Val(x) # ""
    [] TypeOf(x) = "num" -> Val(x) # 0
    [] TypeOf(x) = "null" -> FALSE
    [] TypeOf(x) = "obj" -> DOMAIN Val(x) # {}
    [] TypeOf(x) = "list" -> Val(x) # <<>>

DigitOf == <<"0","1","2","3","4","5","6","7","8","9">>

\* str(n) for a natural number n.
RECURSIVE NatToStr(_)
NatToStr(n) ==
  IF n < 10 THEN DigitOf[n + 1] ELSE NatToStr(n \div 10) \o DigitOf[(n % 10) + 1]

\* str(n) for an int n.
IntToStr(n) == IF n < 0 THEN "-" \o NatToStr(-n) ELSE NatToStr(n)

\* repr(x) of a list element: a string is quoted, with double quotes when it
\* holds a single quote and no double quote.
PyRepr(x) ==
  CASE TypeOf(x) = "str" ->
         IF Contains(Val(x), "'") /\ ~Contains(Val(x), "\"")
         THEN "\"" \o Val(x) \o "\""
         ELSE "'" \o Val(x) \o "'"
    [] TypeOf(x) = "num" -> IntToStr(Val(x))
    [] TypeOf(x) = "null" -> "None"
    [] OTHER -> "{}"

\* The elements of str(list) joined by ", ".
RECURSIVE JoinRepr(_)
JoinRepr(xs) ==
  IF xs = <<>> THEN ""
  ELSE IF Len(xs) = 1 THEN PyRepr(xs[1])
       ELSE PyRepr(xs[1]) \o ", " \o JoinRepr(Tail(xs))

\* str(xs) of a Python list.
PyListStr(xs) == "[" \o JoinRepr(xs) \o "]"

\* str(x) and the f-string conversion {x}.
PyStr(x) ==
  CASE TypeOf(x) = "str" -> Val(x)
    [] TypeOf(x) = "list" -> PyListStr(Val(x))
    [] OTHER -> PyRepr(x)

\* product.get(key, default) on a decoded JSON object.
Get(product, key, default) ==
  IF key \in DOMAIN Val(product) THEN Val(product)[key] ELSE default

\* The value of a decimal digit.
DigitValue(c) == CHOOSE d \in 0..9 : DigitOf[d + 1] = c

\* int of a non-empty string of decimal digits.
RECURSIVE DigitsToNat(_)
DigitsToNat(s) ==
  IF Len(s) = 1 THEN DigitValue(s)
  ELSE 10 * DigitsToNat(SubSeq(s, 1, Len(s) - 1)) + DigitValue(Char(s, Len(s)))

AllDigits(s) == s # "" /\ \A i \in 1..Len(s) : Char(s, i) \in Digits

\* Whether float(s) accepts the text s: here an optionally signed decimal
\* integer with surrounding whitespace (the numeric texts of the model's inputs).
FloatParses(s) ==
  LET u == Strip(s) IN
    \/ AllDigits(u)
    \/ u # "" /\ Char(u, 1) \in {"-", "+"} /\ AllDigits(From(u, 2))

\* float(s) for a text float() accepts.
FloatOfText(s) ==
  LET u == Strip(s) IN
    IF Char(u, 1) = "-" THEN -DigitsToNat(From(u, 2))
    ELSE IF Char(u, 1) = "+" THEN DigitsToNat(From(u, 2))
    ELSE DigitsToNat(u)

(***************************************************************************)
(* Maps: Python dicts in insertion order, as sequences of <<key, label>>   *)
(***************************************************************************)

\* max(len(key)) over the pairs of a non-empty sequence.
MaxKeyLen(items) ==
  CHOOSE m \in {Len(items[i][1]) : i \in DOMAIN items} :
    \A i \in DOMAIN items : Len(items[i][1]) <= m

\* The sequence without its i-th element.
RemoveAt(items, i) == SubSeq(items, 1, i - 1) \o SubSeq(items, i + 1, Len(items))

\* The items left in the order of the map.
KeptInMapOrder(items) == items

\* sorted(items, key=lambda x: len(x[0]), reverse=True): a stable sort, so
\* keys of equal length keep the map's insertion order.
RECURSIVE SortedLongestFirst(_)
SortedLongestFirst(items) ==
  IF items = <<>> THEN <<>>
  ELSE LET m == MaxKeyLen(items)
           i == CHOOSE k \in DOMAIN items :
                  /\ Len(items[k][1]) = m
                  /\ \A j \in 1..(k - 1) : Len(items[j][1]) # m
       IN <<items[i]>> \o SortedLongestFirst(RemoveAt(items, i))

\* `for key, label in items: if <test>: return label`, given the positions
\* hits of the pairs whose key passes the test: the label of the first of
\* them, default when there is none.
FirstLabel(items, hits, default) ==
  IF hits = {} THEN default
  ELSE items[CHOOSE k \in hits : \A j \in hits : k <= j][2]

(***************************************************************************)
(* normalize_text, extract_form, detect_set_bundle                         *)
(***************************************************************************)

\* A normalize_text that collapses the whitespace before it removes the tags.
normalize_text_collapse_first(text) ==
  IF ~Truthy(text) THEN ""
  ELSE Strip(StripTags(CollapseSpaces(Lower(PyStr(text)))))

\* normalize_text(text): text is any decoded value.
normalize_text(text) ==
  IF ~Truthy(text) THEN ""
  ELSE CollapseSpaces(Strip(Lower(StripTags(PyStr(text)))))

\* The `forms` table of extract_form, in declaration order.
Forms ==
  << <<"oil", {"oil", "serum"}>>,
     <<"cream", {"cream", "lotion", "butter"}>>,
     <<"gel", {"gel", "gelly"}>>,
     <<"spray", {"spray", "mist"}>>,
     <<"foam", {"foam", "mousse"}>>,
     <<"bar", {"bar", "soap bar"}>>,
     <<"serum", {"serum"}>>,
     <<"balm", {"balm"}>>,
     <<"wax", {"wax", "pomade"}>>,
     <<"powder", {"powder"}>>,
     <<"liquid", {"liquid", "shampoo", "conditioner"}>> >>

\* extract_form(name, description)
extract_form(name, description) ==
  LET text == Lower(name \o " " \o description)
      hits == {i \in DOMAIN Forms : ContainsAny(text, Forms[i][2])}
  IN IF hits = {} THEN "other"
     ELSE Forms[CHOOSE i \in hits : \A j \in hits : i <= j][1]

bundle_keywords ==
  {"kit", "set", "bundle", "pack", "duo", "trio", "collection", "system"}

\* detect_set_bundle(name, description)
detect_set_bundle(name, description) ==
  IF ContainsAny(Lower(name \o " " \o description), bundle_keywords)
  THEN "kit/bundle"
  ELSE "single"

(***************************************************************************)
(* map_main_category and infer_category_from_name                          *)
(***************************************************************************)

\* The class [\s,;/\-] of the category patterns.
CategorySeparators == WhiteSpace \cup {",", ";", "/", "-"}

\* The class [\s,;/\-\'s] that closes the pattern of infer_category_from_name.
InferClosers == CategorySeparators \cup {"'", "s"}

\* re.search(r'(?:^|[\s,;/\-])' + re.escape(key) + r'(?:$|[' + closers + '])', text)
SeparatedMatch(key, text, closers) ==
  \E i \in 1..(Len(text) + 1) :
    LET j == i + Len(key) - 1 IN
      /\ j <= Len(text)
      /\ SubSeq(text, i, j) = key
      /\ (i = 1 \/ Char(text, i - 1) \in CategorySeparators)
      /\ (j = Len(text) \/ Char(text, j + 1) \in closers)

\* The test of map_main_category for one key and one normalized phrase.
CategoryKeyMatches(key, cat_normalized) ==
  SeparatedMatch(key, cat_normalized, CategorySeparators) \/ cat_normalized = key

\* The test of infer_category_from_name for one key and the normalized text.
InferKeyMatches(key, text) == SeparatedMatch(key, text, InferClosers)

\* all_cats of map_main_category: the flattened phrases, categories first.
AllCats(categories, subcategories) ==
  (IF ~Truthy(categories) THEN <<>>
   ELSE IF TypeOf(categories) = "list" THEN Val(categories) ELSE <<categories>>)
  \o
  (IF ~Truthy(subcategories) THEN <<>>
   ELSE IF TypeOf(subcategories) = "list" THEN Val(subcategories) ELSE <<subcategories>>)

\* A scan with the loops exchanged: the keys outside, the phrases inside.
RECURSIVE ScanKeysFirst(_, _)
ScanKeysFirst(all_cats, sorted_keys) ==
  IF sorted_keys = <<>> THEN "Other"
  ELSE IF \E c \in DOMAIN all_cats :
            CategoryKeyMatches(sorted_keys[1][1], normalize_text(all_cats[c]))
       THEN sorted_keys[1][2]
       ELSE ScanKeysFirst(all_cats, Tail(sorted_keys))

\* The loop `for cat in all_cats` of map_main_category over sorted keys.
RECURSIVE ScanCats(_, _)
ScanCats(all_cats, sorted_keys) ==
  IF all_cats = <<>> THEN "Other"
  ELSE LET cat_normalized == normalize_text(all_cats[1])
           hits == {k \in DOMAIN sorted_keys :
                      CategoryKeyMatches(sorted_keys[k][1], cat_normalized)}
       IN IF hits # {}
          THEN FirstLabel(sorted_keys, hits, "Other")
          ELSE ScanCats(Tail(all_cats), sorted_keys)

\* map_main_category(categories, subcategories, main_category_map)
map_main_category(categories, subcategories, main_category_map) ==
  ScanCats(AllCats(categories, subcategories),
           SortedLongestFirst(main_category_map))

\* infer_category_from_name(name, description, main_category_map)
infer_category_from_name(name, description, main_category_map) ==
  LET text == normalize_text(Str(name \o " " \o description))
      sorted_keys == SortedLongestFirst(main_category_map)
  IN FirstLabel(sorted_keys,
                {k \in DOMAIN sorted_keys : InferKeyMatches(sorted_keys[k][1], text)},
                "Other")

(***************************************************************************)
(* map_product_type                                                        *)
(***************************************************************************)

\* The cleaning of map_product_type: lowercase, punctuation to spaces,
\* whitespace collapsed, stripped.
CleanText(raw) == Strip(CollapseSpaces(StripPunctuation(Lower(raw))))

\* A strategy 1 that trusts no vendor product type.
TrustNothing(existing_product_type) == FALSE

\* Strategy 1 applies: the vendor's product type is trusted.
TrustExisting(existing_product_type) ==
  /\ Truthy(existing_product_type)
  /\ Strip(Val(existing_product_type)) # ""
  /\ Strip(Val(existing_product_type)) # "Other"

\* Strategy 2 (and the first half of 5): \b synonym \b is found in the text.
BoundedSynonym(synonym, text) == WordBounded(text, Lower(synonym))

\* Strategy 3: every word of the synonym is a word of the text.
SubsetSynonym(synonym, text) ==
  SplitWords(Lower(synonym)) \subseteq SplitWords(text)

\* Strategy 4 (and the second half of 5): the synonym is a substring.
SubstringSynonym(synonym, text) == Contains(text, Lower(synonym))

\* The positions of the sorted synonyms whose key passes each test.
BoundedHits(sorted_synonyms, text) ==
  {k \in DOMAIN sorted_synonyms : BoundedSynonym(sorted_synonyms[k][1], text)}

SubsetHits(sorted_synonyms, text) ==
  {k \in DOMAIN sorted_synonyms : SubsetSynonym(sorted_synonyms[k][1], text)}

SubstringHits(sorted_synonyms, text) ==
  {k \in DOMAIN sorted_synonyms : SubstringSynonym(sorted_synonyms[k][1], text)}

\* The smart_patterns table of strategy 6, in declaration order. An entry
\* \b(first)\b.*\b(then)\b has a non-empty `then`; \bleave.?in\b is the
\* entry of kind "leave_in".
smart_patterns ==
  << [kind |-> "words", first |-> {"mask", "masque"}, then |-> {}, label |-> "Face Mask"],
     [kind |-> "words", first |-> {"cream", "creme"}, then |-> {"hair", "curl"}, label |-> "Hair Cream"],
     [kind |-> "words", first |-> {"oil"}, then |-> {"hair", "scalp"}, label |-> "Hair Oil"],
     [kind |-> "words", first |-> {"gel", "gelly", "custard"}, then |-> {"hair", "curl", "style"}, label |-> "Hair Gel"],
     [kind |-> "words", first |-> {"butter"}, then |-> {"hair", "curl", "body"}, label |-> "Hair Butter"],
     [kind |-> "words", first |-> {"brush"}, then |-> {"hair", "wave", "style"}, label |-> "Hair Brush"],
     [kind |-> "words", first |-> {"shampoo", "cleanser"}, then |-> {}, label |-> "Shampoo"],
     [kind |-> "words", first |-> {"conditioner"}, then |-> {}, label |-> "Conditioner"],
     [kind |-> "leave_in", first |-> {}, then |-> {}, label |-> "Leave-In Conditioner"],
     [kind |-> "words", first |-> {"serum"}, then |-> {"face", "facial", "skin"}, label |-> "Face Serum"],
     [kind |-> "words", first |-> {"scrub"}, then |-> {"face", "facial"}, label |-> "Face Scrub"],
     [kind |-> "words", first |-> {"scrub"}, then |-> {"body"}, label |-> "Body Scrub"],
     [kind |-> "words", first |-> {"moisturizer"}, then |-> {"face", "facial"}, label |-> "Face Moisturizer"],
     [kind |-> "words", first |-> {"moisturizer", "lotion"}, then |-> {"body"}, label |-> "Body Butter"],
     [kind |-> "words", first |-> {"cleanser"}, then |-> {"face", "facial"}, label |-> "Face Cleanser"],
     [kind |-> "words", first |-> {"balm"}, then |-> {"lip"}, label |-> "Lip Balm"],
     [kind |-> "words", first |-> {"gloss"}, then |-> {"lip"}, label |-> "Lip Gloss"],
     [kind |-> "words", first |-> {"polish"}, then |-> {"nail"}, label |-> "Nail Polish"],
     [kind |-> "words", first |-> {"candle"}, then |-> {}, label |-> "Scented Candle"],
     [kind |-> "words", first |-> {"perfume", "fragrance", "cologne"}, then |-> {}, label |-> "Perfume"],
     [kind |-> "words", first |-> {"dress"}, then |-> {}, label |-> "Dress"],
     [kind |-> "words", first |-> {"bikini"}, then |-> {}, label |-> "Bikini"],
     [kind |-> "words", first |-> {"bag", "handbag", "purse"}, then |-> {}, label |-> "Handbag"],
     [kind |-> "words", first |-> {"soap"}, then |-> {"bar"}, label |-> "Bar Soap"],
     [kind |-> "words", first |-> {"vitamins", "supplements"}, then |-> {}, label |-> "Vitamins"] >>

\* re.search(r'\bleave.?in\b', text)
LeaveInMatches(text) ==
  \E i \in 1..(Len(text) - 6) :
    /\ SubSeq(text, i, i + 4) = "leave"
    /\ WordBoundary(text, i - 1)
    /\ \/ SubSeq(text, i + 5, i + 6) = "in" /\ WordBoundary(text, i + 6)
       \/ /\ i + 7 <= Len(text)
          /\ Char(text, i + 5) # "\n"
          /\ SubSeq(text, i + 6, i + 7) = "in"
          /\ WordBoundary(text, i + 7)

\* re.search(pattern, text, re.IGNORECASE) for one entry of smart_patterns,
\* given the maximal runs of word characters of the text in order: the
\* alternatives are made of word characters only, so \b(a|b)\b matches
\* exactly a run that is one of them, and .* reaches any later run.
PatternMatches(pat, text, runs) ==
  IF pat.kind = "leave_in" THEN LeaveInMatches(text)
  ELSE \E m \in DOMAIN runs :
         /\ runs[m] \in pat.first
         /\ \/ pat.then = {}
            \/ \E n \in (m + 1)..Len(runs) : runs[n] \in pat.then

\* The label of the last pattern of the table, from the n-th on, that matches.
RECURSIVE LastPattern(_, _, _)
LastPattern(n, text, runs) ==
  IF n > Len(smart_patterns) THEN "Other"
  ELSE LET later == LastPattern(n + 1, text, runs) IN
         IF later # "Other" THEN later
         ELSE IF PatternMatches(smart_patterns[n], text, runs)
              THEN smart_patterns[n].label
              ELSE "Other"

\* The label of the first pattern of the table, from the n-th on, that matches.
RECURSIVE FirstPattern(_, _, _)
FirstPattern(n, text, runs) ==
  IF n > Len(smart_patterns) THEN "Other"
  ELSE IF PatternMatches(smart_patterns[n], text, runs) THEN smart_patterns[n].label
       ELSE FirstPattern(n + 1, text, runs)

\* Strategy 6: the label of the first pattern of the table that matches.
SmartPatternType(text) == FirstPattern(1, text, FindWords(text))

\* Strategy 5: the synonyms against the text of the categories.
CategoryFallbackApplies(categories, sorted_synonyms) ==
  /\ Truthy(categories)
  /\ LET cat_text == CleanText(PyStr(categories)) IN
       \/ BoundedHits(sorted_synonyms, cat_text) # {}
       \/ SubstringHits(sorted_synonyms, cat_text) # {}

CategoryFallbackType(categories, sorted_synonyms) ==
  LET cat_text == CleanText(PyStr(categories)) IN
    IF BoundedHits(sorted_synonyms, cat_text) # {}
    THEN FirstLabel(sorted_synonyms, BoundedHits(sorted_synonyms, cat_text), "Other")
    ELSE FirstLabel(sorted_synonyms, SubstringHits(sorted_synonyms, cat_text), "Other")

\* map_product_type raises AttributeError: .strip() of a truthy non-string.
map_product_type_raises(existing_product_type) ==
  Truthy(existing_product_type) /\ ~IsStr(existing_product_type)

\* A map_product_type that consults the pattern table before the synonyms.
map_product_type_patterns_first(name, description, categories, product_type_synonyms, existing_product_type) ==
  IF TrustExisting(existing_product_type)
  THEN Strip(Val(existing_product_type))
  ELSE
    LET text == CleanText(name \o " " \o description)
        sorted_synonyms == SortedLongestFirst(product_type_synonyms)
    IN
      IF SmartPatternType(text) # "Other"
      THEN SmartPatternType(text)
      ELSE IF BoundedHits(sorted_synonyms, text) # {}
      THEN FirstLabel(sorted_synonyms, BoundedHits(sorted_synonyms, text), "Other")
      ELSE IF SubsetHits(sorted_synonyms, text) # {}
      THEN FirstLabel(sorted_synonyms, SubsetHits(sorted_synonyms, text), "Other")
      ELSE IF SubstringHits(sorted_synonyms, text) # {}
      THEN FirstLabel(sorted_synonyms, SubstringHits(sorted_synonyms, text), "Other")
      ELSE IF CategoryFallbackApplies(categories, sorted_synonyms)
      THEN CategoryFallbackType(categories, sorted_synonyms)
      ELSE "Other"

\* map_product_type(name, description, categories, product_type_synonyms,
\*                  existing_product_type), when it does not raise.
map_product_type(name, description, categories, product_type_synonyms, existing_product_type) ==
  IF TrustExisting(existing_product_type)
  THEN Strip(Val(existing_product_type))
  ELSE
    LET text == CleanText(name \o " " \o description)
        sorted_synonyms == SortedLongestFirst(product_type_synonyms)
    IN
      IF BoundedHits(sorted_synonyms, text) # {}
      THEN FirstLabel(sorted_synonyms, BoundedHits(sorted_synonyms, text), "Other")
      ELSE IF SubsetHits(sorted_synonyms, text) # {}
      THEN FirstLabel(sorted_synonyms, SubsetHits(sorted_synonyms, text), "Other")
      ELSE IF SubstringHits(sorted_synonyms, text) # {}
      THEN FirstLabel(sorted_synonyms, SubstringHits(sorted_synonyms, text), "Other")
      ELSE IF CategoryFallbackApplies(categories, sorted_synonyms)
      THEN CategoryFallbackType(categories, sorted_synonyms)
      ELSE SmartPatternType(text)

(***************************************************************************)
(* extract_tags                                                            *)
(***************************************************************************)

TagStopWords == {"the", "and", "for", "with"}

\* [w for w in name_words if len(w) > 2 and w not in {...}]
RECURSIVE MeaningfulWords(_)
MeaningfulWords(ws) ==
  IF ws = <<>> THEN <<>>
  ELSE (IF Len(ws[1]) > 2 /\ ws[1] \notin TagStopWords THEN <<ws[1]>> ELSE <<>>)
       \o MeaningfulWords(Tail(ws))

\* xs[:n]
Take(xs, n) == SubSeq(xs, 1, IF Len(xs) < n THEN Len(xs) ELSE n)

SeqToSet(xs) == {xs[i] : i \in DOMAIN xs}

\* extract_tags(name, description, categories): the tags as a set.
extract_tags(name, description, categories) ==
  SeqToSet(Take(MeaningfulWords(FindWords(Lower(name))), 5))
  \cup
  (IF ~Truthy(categories) THEN {}
   ELSE IF TypeOf(categories) = "list"
        THEN {normalize_text(Val(categories)[i]) :
                i \in DOMAIN Take(Val(categories), 3)}
        ELSE {normalize_text(categories)})

(***************************************************************************)
(* refine_category                                                         *)
(***************************************************************************)

womens_care_kw ==
  {"yoni", "feminine wash", "feminine hygiene", "feminine deodorant",
   "feminine care", "feminine spray", "feminine oil", "feminine foam",
   "feminine soothing", "feminine skin", "foaming feminine",
   "intimate wash", "intimate spray", "intimate oil", "intimate gel",
   "intimate flora", "vaginal", "vagina", "menstrual", "period underwear",
   "period panty", "reusable period", "boric acid", "v steam", "vsteam",
   "womb detox", "womb matter", "yoni steam", "yoni oil", "yoni wash",
   "yoni egg", "yoni toning", "yoni elixir", "yoni duo", "kitty potion",
   "cookie wash", "cookie oil", "cookie restore", "ph balance",
   "prenatal", "postpartum", "fertility supplement", "ovulation",
   "menstrual cup", "feminine hygiene bundle", "yin trifecta"}

\* _is_womens_care(name_and_type)
is_womens_care(name_and_type) == ContainsAny(name_and_type, womens_care_kw)

kids_indicators ==
  {"girls' clothing", "baby", "toddler", "kids'", "pet supplies",
   "pet clothing", "pet apparel", "dog"}

womens_indicators == {"women's", "female", "bridal", "lingerie"}

vitamin_kw ==
  {"vitamin", "supplement", "protein", "collagen", "probiotic",
   "gummies", "gummy", "creatine", "elderberry", "melatonin",
   "testosterone", "multivitamin", "capsule", "tablet",
   "meal replacement", "nutritional shake", "weight gain",
   "pre-workout", "energy supplement", "superfood",
   "sea moss", "herbal extract", "herbal supplement"}

mens_kw == {"razor", "beard", "shav", "grooming", "shaver"}

books_kw ==
  {"book", "ebook", "e-book", "journal", "planner", "guide",
   "workbook", "coloring", "print", "painting", "postcard",
   "dice", "play dough", "affirmation cards", "banner",
   "pencil", "crayon", "paint brush", "stationery",
   "recipe book", "digital download", "digital workbook"}

\* The raw fields refine_category calls .lower() on.
RefineFields == {"Name", "Subcategory 1", "Main Category", "Product Type"}

\* refine_category raises AttributeError: .lower() of a value that is no string.
refine_category_raises(product) ==
  \E f \in RefineFields : ~IsStr(Get(product, f, Str("")))

\* name_and_type of refine_category.
NameAndType(product, product_type) ==
  Lower(Val(Get(product, "Name", Str("")))) \o " " \o Lower(product_type) \o " "
  \o Lower(Val(Get(product, "Product Type", Str(""))))

\* raw_combined of refine_category.
RawCombined(product) ==
  Lower(Lower(Val(Get(product, "Main Category", Str("")))) \o " "
        \o Lower(Val(Get(product, "Subcategory 1", Str("")))))

\* A Clothing branch that looks for "men's" before the women's indicators.
RefineClothingMensFirst(raw_combined) ==
  IF ContainsAny(raw_combined, kids_indicators) THEN "Baby & Kids"
  ELSE IF Contains(raw_combined, "men's") THEN "Men's Clothing"
  ELSE "Women's Clothing"

\* The Clothing branch of refine_category.
RefineClothing(raw_combined) ==
  IF ContainsAny(raw_combined, kids_indicators) THEN "Baby & Kids"
  ELSE IF ContainsAny(raw_combined, womens_indicators) THEN "Women's Clothing"
  ELSE IF Contains(raw_combined, "men's") /\ ~Contains(raw_combined, "women's")
  THEN "Men's Clothing"
  ELSE "Women's Clothing"

\* The Health & Wellness branch of refine_category.
RefineWellness(name_and_type) ==
  IF ContainsAny(name_and_type, vitamin_kw) THEN "Vitamins & Supplements"
  ELSE IF ContainsAny(name_and_type, mens_kw) THEN "Men's Care"
  ELSE "Body Care"

\* The Accessories branch of refine_category.
RefineAccessories(name_and_type) ==
  IF /\ ContainsAny(name_and_type,
                    {"battery", "batteries", "charger pack", "battery charger"})
     /\ ContainsAny(name_and_type, {"rechargeable", "battery", "charger"})
  THEN "Home Care"
  ELSE IF ContainsAny(name_and_type, books_kw) THEN "Books & More"
  ELSE "Accessories"

\* A refinement that leaves the provisional category as the mapper gave it.
refine_category_unapplied(main_category, product, product_type) == main_category

\* A refine_category that splits Clothing before the women's-care check.
refine_category_clothing_first(main_category, product, product_type) ==
  LET name_and_type == NameAndType(product, product_type) IN
    IF main_category = "Clothing" THEN RefineClothing(RawCombined(product))
    ELSE IF is_womens_care(name_and_type) THEN "Women's Care"
    ELSE IF main_category = "Health & Wellness" THEN RefineWellness(name_and_type)
    ELSE IF main_category = "Accessories" THEN RefineAccessories(name_and_type)
    ELSE main_category

\* refine_category(main_category, product, product_type), when it does not raise.
refine_category(main_category, product, product_type) ==
  LET name_and_type == NameAndType(product, product_type) IN
    IF is_womens_care(name_and_type) THEN "Women's Care"
    ELSE IF main_category = "Clothing" THEN RefineClothing(RawCombined(product))
    ELSE IF main_category = "Health & Wellness" THEN RefineWellness(name_and_type)
    ELSE IF main_category = "Accessories" THEN RefineAccessories(name_and_type)
    ELSE main_category

(***************************************************************************)
(* normalize_product                                                       *)
(***************************************************************************)

\* Prices are held in hundredths: round(price, 2) keeps two decimals.
PriceScale == 100

\* NGN_TO_USD = 1 / NgnPerUsd
NgnPerUsd == 1500

NGN_SOURCES == {"nubanbeauty.com", "yangabeauty.com"}

\* The price parsed by the try/except of normalize_product, in whole units:
\* float(price_str) if price_str else 0.0, and 0.0 on ValueError or TypeError.
ParsePrice(price_str) ==
  IF ~Truthy(price_str) THEN 0
  ELSE IF TypeOf(price_str) = "num" THEN Val(price_str)
  ELSE IF TypeOf(price_str) = "str" /\ FloatParses(Val(price_str)) THEN FloatOfText(Val(price_str))
  ELSE 0

\* round(a / b) for b > 0, ties to even.
RoundHalfEven(a, b) ==
  LET q == a \div b
      r == a % b
  IN IF 2 * r < b THEN q
     ELSE IF 2 * r > b THEN q + 1
     ELSE IF q % 2 = 0 THEN q ELSE q + 1

\* A conversion that drops the digits after the second decimal.
ConvertNgnTruncating(price) == (price * PriceScale) \div NgnPerUsd

\* round(price * NGN_TO_USD, 2), in hundredths, for a price in whole units.
ConvertNgn(price) == RoundHalfEven(price * PriceScale, NgnPerUsd)

\* source in NGN_SOURCES
IsNgnSource(source) == IsStr(source) /\ Val(source) \in NGN_SOURCES

\* The price normalize_product returns, in hundredths.
ProductPrice(product) ==
  LET price == ParsePrice(Get(product, "Price", Str("0"))) IN
    IF IsNgnSource(Get(product, "Source", Str(""))) /\ price > 0
    THEN ConvertNgn(price)
    ELSE price * PriceScale

\* The name normalize_product keeps: tags removed, whitespace collapsed.
CleanName(name) == CollapseSpaces(Strip(StripTags(name)))

\* hash() of a str is a function of the text and of the process's hash seed;
\* the model computes a small positional checksum in 0..HashMod-1.
HashMod == 7

CodeTable ==
  <<"a","b","c","d","e","f","g","h","i","j","k","l","m",
    "n","o","p","q","r","s","t","u","v","w","x","y","z"," ">>

CharCode(c) ==
  IF \E i \in DOMAIN CodeTable : CodeTable[i] = LowerChar(c)
  THEN CHOOSE i \in DOMAIN CodeTable : CodeTable[i] = LowerChar(c)
  ELSE 0

RECURSIVE CheckSum(_, _)
CheckSum(s, i) ==
  IF i > Len(s) THEN 0 ELSE i * CharCode(Char(s, i)) + CheckSum(s, i + 1)

\* hash(s) under the process's hash seed.
PyHash(s, seed) == (seed + CheckSum(s, 1)) % HashMod

\* A synthetic id that also hashes the product's link.
ProductIdWithLink(product, name, company, seed) ==
  PyStr(Get(product, "id",
            Str("product_" \o IntToStr(PyHash(name \o PyStr(company)
                  \o PyStr(Get(product, "Link", Str(""))), seed)))))

\* product.get('id', f"product_{hash(name + str(company))}"), then str(...).
ProductId(product, name, company, seed) ==
  PyStr(Get(product, "id", Str("product_" \o IntToStr(PyHash(name \o PyStr(company), seed)))))

\* categories of normalize_product: the non-empty category fields, in order.
RECURSIVE KeepTruthy(_)
KeepTruthy(xs) ==
  IF xs = <<>> THEN <<>>
  ELSE (IF Truthy(xs[1]) THEN <<xs[1]>> ELSE <<>>) \o KeepTruthy(Tail(xs))

ProductCategories(product) ==
  List(KeepTruthy(<<Get(product, "Main Category", Str("")),
                    Get(product, "Subcategory 1", Str("")),
                    Get(product, "Subcategory 2", Str("")),
                    Get(product, "Product Type", Str(""))>>))

\* subcategories = f"{subcategory1} {subcategory2}".strip()
ProductSubcategories(product) ==
  Str(Strip(PyStr(Get(product, "Subcategory 1", Str(""))) \o " "
            \o PyStr(Get(product, "Subcategory 2", Str("")))))

\* normalize_product raises: the product is no dict, its Name is no string,
\* or map_product_type or refine_category raises.
normalize_product_raises(product) ==
  \/ TypeOf(product) # "obj"
  \/ ~IsStr(Get(product, "Name", Str("")))
  \/ map_product_type_raises(Get(product, "Product Type", Str("")))
  \/ refine_category_raises(product)

\* normalize_product(product, main_category_map, product_type_synonyms), when
\* it does not raise; seed is the hash seed of the process.
normalize_product(product, main_category_map, product_type_synonyms, seed) ==
  LET name == CleanName(Val(Get(product, "Name", Str(""))))
      company == Get(product, "Company", Str(""))
      description == ""
      categories == ProductCategories(product)
      subcategories == ProductSubcategories(product)
      mapped == map_main_category(categories, subcategories, main_category_map)
      provisional ==
        IF mapped = "Other"
        THEN infer_category_from_name(name, description, main_category_map)
        ELSE mapped
      product_type ==
        map_product_type(name, description, categories, product_type_synonyms,
                         Get(product, "Product Type", Str("")))
  IN [ id |-> ProductId(product, name, company, seed),
       name |-> name,
       company |-> company,
       price |-> ProductPrice(product),
       image_url |-> Get(product, "Image URL", Str("")),
       product_url |-> Get(product, "Link", Str("")),
       main_category |-> refine_category(provisional, product, product_type),
       product_type |-> product_type,
       form |-> extract_form(name, description),
       set_bundle |-> detect_set_bundle(name, description),
       tags |-> extract_tags(name, description, categories),
       subcategory_2 |-> Get(product, "Subcategory 2", Str("")),
       raw |-> product ]

(***************************************************************************)
(* The batch: main()                                                       *)
(***************************************************************************)

VARIABLES
  input_exists,           \* whether the input file exists
  maps_loadable,          \* whether both map files exist and parse
  data,                   \* the decoded content of the input file
  hash_seed,              \* the hash seed of the process
  pc,                     \* the position of main()
  main_category_map,      \* the maps as loaded by load_maps()
  product_type_synonyms,
  products,               \* the list main() iterates over
  i,                      \* the number of products the loop has handled
  normalized_products,
  stats,                  \* the four Counters and unknown_types
  errors,                 \* the indexes printed by the per-record handler
  seen_ids,
  deduped_products,
  k,                      \* the number of records the dedup loop has handled
  output_file,            \* the lines of normalized_products.json once written
  call,                   \* a single call of one function: its name and arguments
  returned,               \* whether that call has returned
  ret                     \* and its result

batch_vars ==
  <<input_exists, maps_loadable, data, hash_seed, pc, main_category_map,
    product_type_synonyms, products, i, normalized_products, stats, errors,
    seen_ids, deduped_products, k, output_file>>

unit_vars == <<call, returned, ret>>

vars ==
  <<input_exists, maps_loadable, data, hash_seed, pc, main_category_map,
    product_type_synonyms, products, i, normalized_products, stats, errors,
    seen_ids, deduped_products, k, output_file, call, returned, ret>>

\* Counter(): a function from the labels counted so far to their counts.
EmptyCounter == <<>>

\* counter[label] += 1
Increment(counter, label) ==
  IF label \in DOMAIN counter
  THEN [counter EXCEPT ![label] = @ + 1]
  ELSE counter @@ (label :> 1)

\* The stats dict main() starts with.
EmptyStats ==
  [main_categories |-> EmptyCounter, product_types |-> EmptyCounter,
   forms |-> EmptyCounter, set_bundles |-> EmptyCounter, unknown_types |-> <<>>]

\* The four `+= 1` lines for one normalized record.
CountRecord(st, normalized) ==
  [st EXCEPT !.main_categories = Increment(@, normalized.main_category),
             !.product_types = Increment(@, normalized.product_type),
             !.forms = Increment(@, normalized.form),
             !.set_bundles = Increment(@, normalized.set_bundle)]

\* normalized['name'][:50] is appended when the product type is 'Other'.
TrackUnknown(st, normalized) ==
  IF normalized.product_type = "Other"
  THEN [st EXCEPT !.unknown_types = Append(@, SubSeq(normalized.name, 1,
          IF Len(normalized.name) < 50 THEN Len(normalized.name) ELSE 50))]
  ELSE st

\* The loop that recomputes the four Counters from the deduplicated list.
RECURSIVE CountAll(_, _)
CountAll(st, records) ==
  IF records = <<>> THEN st
  ELSE CountAll(CountRecord(st, records[1]), Tail(records))

\* A recomputation that keeps the pre-dedup Counters.
RecomputeStatsSkipped(st, records) == st

\* The four Counters are reset and recounted; unknown_types is left as it is.
RecomputeStats(st, records) ==
  CountAll([EmptyStats EXCEPT !.unknown_types = st.unknown_types], records)

\* The list main() takes from the decoded input: a list, the "products" of a
\* dict, or the single value.
ProductsOf(d) ==
  IF TypeOf(d) = "list" THEN Val(d)
  ELSE IF TypeOf(d) = "obj" /\ "products" \in DOMAIN Val(d) THEN Val(Val(d)["products"])
  ELSE <<d>>

\* A dedup test that lets every record through.
IsNewIdAlways(pid, seen) == TRUE

\* `if pid not in seen_ids`
IsNewId(pid, seen) == pid \notin seen

(***************************************************************************)
(* Inputs of the batch                                                     *)
(***************************************************************************)

\* The longest input list of a run.
MaxProducts == 3

\* The hash seeds a process may start with.
HashSeeds == {0, 1}

\* maps/main_category_map.json of the runs.
CategoryMapFile ==
  << <<"men", "Men's Care">>, <<"women", "Women's Care">>,
     <<"men's care", "Men's Care">>, <<"lip care", "Skin Care">>,
     <<"clothing", "Clothing">>, <<"wellness", "Health & Wellness">> >>

\* maps/product_type_synonyms.json of the runs.
SynonymsFile ==
  << <<"balm", "Balm">>, <<"lip balm", "Lip Balm">>, <<"oil", "Body Oil">> >>

\* Raw products of the runs: two that share a supplied id, two without id
\* that share name and company, and one whose Name is no string.
RawLipBalm ==
  Obj(("id" :> Str("a1")) @@ ("Name" :> Str("Shea Lip Balm")) @@
      ("Company" :> Str("Nuban")) @@ ("Price" :> Str("3000")) @@
      ("Source" :> Str("nubanbeauty.com")) @@ ("Main Category" :> Str("Lip Care")))

RawMask ==
  Obj(("id" :> Str("a1")) @@ ("Name" :> Str("Clay Mask Kit")) @@
      ("Company" :> Str("Acme")) @@ ("Price" :> Num(12)) @@
      ("Main Category" :> Str("Clothing")) @@
      ("Subcategory 1" :> Str("Men's Accessories")))

RawMystery ==
  Obj(("Name" :> Str("Mystery <b>Item</b>")) @@ ("Company" :> Str("Acme")) @@
      ("Price" :> Str("abc")))

RawMysteryAgain ==
  Obj(("Name" :> Str("Mystery Item")) @@ ("Company" :> Str("Acme")) @@
      ("Price" :> Str("5")) @@ ("Link" :> Str("https://acme.example/item")) @@
      ("Main Category" :> Str("Wellness")))

RawBadName ==
  Obj(("id" :> Str("b2")) @@ ("Name" :> Num(5)) @@ ("Company" :> Str("Acme")))

RawProducts == {RawLipBalm, RawMask, RawMystery, RawMysteryAgain, RawBadName}

\* The lists of at most n raw products.
RECURSIVE ListsUpTo(_)
ListsUpTo(n) ==
  IF n = 0 THEN {<<>>}
  ELSE LET shorter == ListsUpTo(n - 1) IN
         shorter \cup {Append(l, p) : l \in {x \in shorter : Len(x) = n - 1},
                                      p \in RawProducts}

\* The decoded inputs: a list, a dict with a "products" list, a single product.
InputData ==
  {List(l) : l \in ListsUpTo(MaxProducts)}
  \cup {Obj("products" :> List(<<p>>)) : p \in RawProducts}
  \cup RawProducts

(***************************************************************************)
(* main()                                                                  *)
(***************************************************************************)

NoCall == [fn |-> "none"]

Init ==
  /\ input_exists \in BOOLEAN
  /\ maps_loadable \in BOOLEAN
  /\ data \in InputData
  /\ hash_seed \in HashSeeds
  /\ pc = "check_input"
  /\ main_category_map = <<>>
  /\ product_type_synonyms = <<>>
  /\ products = <<>>
  /\ i = 0
  /\ normalized_products = <<>>
  /\ stats = EmptyStats
  /\ errors = <<>>
  /\ seen_ids = {}
  /\ deduped_products = <<>>
  /\ k = 0
  /\ output_file = [written |-> FALSE, lines |-> <<>>]
  /\ call = NoCall
  /\ returned = FALSE
  /\ ret = ""

\* if not input_file.exists(): return
CheckInput ==
  /\ pc = "check_input"
  /\ pc' = IF input_exists THEN "load_maps" ELSE "done"
  /\ UNCHANGED <<input_exists, maps_loadable, data, hash_seed, main_category_map,
                 product_type_synonyms, products, i, normalized_products, stats,
                 errors, seen_ids, deduped_products, k, output_file, unit_vars>>

\* A main() that goes on with empty maps when load_maps() fails.
LoadMapsIgnoringFailure ==
  /\ pc = "load_maps"
  /\ main_category_map' = (IF maps_loadable THEN CategoryMapFile ELSE <<>>)
  /\ product_type_synonyms' = (IF maps_loadable THEN SynonymsFile ELSE <<>>)
  /\ pc' = "load_products"
  /\ UNCHANGED <<input_exists, maps_loadable, data, hash_seed, products, i,
                 normalized_products, stats, errors, seen_ids, deduped_products,
                 k, output_file, unit_vars>>

\* load_maps() in its try: an exception ends main().
LoadMaps ==
  /\ pc = "load_maps"
  /\ IF maps_loadable
     THEN /\ main_category_map' = CategoryMapFile
          /\ product_type_synonyms' = SynonymsFile
          /\ pc' = "load_products"
     ELSE /\ pc' = "done"
          /\ UNCHANGED <<main_category_map, product_type_synonyms>>
  /\ UNCHANGED <<input_exists, maps_loadable, data, hash_seed, products, i,
                 normalized_products, stats, errors, seen_ids, deduped_products,
                 k, output_file, unit_vars>>

\* json.load(f), the choice of `products`, and the empty list and stats.
LoadProducts ==
  /\ pc = "load_products"
  /\ products' = ProductsOf(data)
  /\ normalized_products' = <<>>
  /\ stats' = EmptyStats
  /\ i' = 0
  /\ pc' = "loop"
  /\ UNCHANGED <<input_exists, maps_loadable, data, hash_seed, main_category_map,
                 product_type_synonyms, errors, seen_ids, deduped_products, k,
                 output_file, unit_vars>>

\* A loop whose handler ends the loop at the first record that raises.
ProcessProductAborting ==
  /\ pc = "loop"
  /\ i < Len(products)
  /\ LET product == products[i + 1] IN
       IF normalize_product_raises(product)
       THEN /\ errors' = Append(errors, i)
            /\ i' = Len(products)
            /\ UNCHANGED <<normalized_products, stats>>
       ELSE LET normalized == normalize_product(product, main_category_map,
                                                product_type_synonyms, hash_seed)
            IN /\ normalized_products' = Append(normalized_products, normalized)
               /\ stats' = TrackUnknown(CountRecord(stats, normalized), normalized)
               /\ i' = i + 1
               /\ UNCHANGED errors
  /\ UNCHANGED <<input_exists, maps_loadable, data, hash_seed, pc,
                 main_category_map, product_type_synonyms, products, seen_ids,
                 deduped_products, k, output_file, call, returned, ret>>

\* One iteration of `for i, product in enumerate(products)`: the record is
\* normalized, appended and counted, or its index is printed and it is skipped.
ProcessProduct ==
  /\ pc = "loop"
  /\ i < Len(products)
  /\ LET product == products[i + 1] IN
       IF normalize_product_raises(product)
       THEN /\ errors' = Append(errors, i)
            /\ UNCHANGED <<normalized_products, stats>>
       ELSE LET normalized == normalize_product(product, main_category_map,
                                                product_type_synonyms, hash_seed)
            IN /\ normalized_products' = Append(normalized_products, normalized)
               /\ stats' = TrackUnknown(CountRecord(stats, normalized), normalized)
               /\ UNCHANGED errors
  /\ i' = i + 1
  /\ UNCHANGED <<input_exists, maps_loadable, data, hash_seed, pc,
                 main_category_map, product_type_synonyms, products, seen_ids,
                 deduped_products, k, output_file, unit_vars>>

\* The loop ends: seen_ids = set(), deduped_products = [].
StartDedup ==
  /\ pc = "loop"
  /\ i = Len(products)
  /\ seen_ids' = {}
  /\ deduped_products' = <<>>
  /\ k' = 0
  /\ pc' = "dedup"
  /\ UNCHANGED <<input_exists, maps_loadable, data, hash_seed, main_category_map,
                 product_type_synonyms, products, i, normalized_products, stats,
                 errors, output_file, unit_vars>>

\* One iteration of `for product in normalized_products`.
DedupStep ==
  /\ pc = "dedup"
  /\ k < Len(normalized_products)
  /\ LET product == normalized_products[k + 1] IN
       IF IsNewId(product.id, seen_ids)
       THEN /\ seen_ids' = seen_ids \cup {product.id}
            /\ deduped_products' = Append(deduped_products, product)
       ELSE UNCHANGED <<seen_ids, deduped_products>>
  /\ k' = k + 1
  /\ UNCHANGED <<input_exists, maps_loadable, data, hash_seed, pc,
                 main_category_map, product_type_synonyms, products, i,
                 normalized_products, stats, errors, output_file, unit_vars>>

\* dupes_removed = len(normalized_products) - len(deduped_products)
DupesRemoved == Len(normalized_products) - Len(deduped_products)

\* After the dedup loop: the stats are recomputed when duplicates were
\* removed, and normalized_products = deduped_products.
FinishDedup ==
  /\ pc = "dedup"
  /\ k = Len(normalized_products)
  /\ stats' = IF DupesRemoved > 0 THEN RecomputeStats(stats, deduped_products)
              ELSE stats
  /\ normalized_products' = deduped_products
  /\ pc' = "save"
  /\ UNCHANGED <<input_exists, maps_loadable, data, hash_seed, main_category_map,
                 product_type_synonyms, products, i, errors, seen_ids,
                 deduped_products, k, output_file, unit_vars>>

\* The output file is written, one line per record.
SaveOutput ==
  /\ pc = "save"
  /\ output_file' = [written |-> TRUE, lines |-> normalized_products]
  /\ pc' = "report"
  /\ UNCHANGED <<input_exists, maps_loadable, data, hash_seed, main_category_map,
                 product_type_synonyms, products, i, normalized_products, stats,
                 errors, seen_ids, deduped_products, k, unit_vars>>

\* The report is printed from stats; main() returns.
PrintReport ==
  /\ pc = "report"
  /\ pc' = "done"
  /\ UNCHANGED <<input_exists, maps_loadable, data, hash_seed, main_category_map,
                 product_type_synonyms, products, i, normalized_products, stats,
                 errors, seen_ids, deduped_products, k, output_file, unit_vars>>

Next ==
  \/ CheckInput
  \/ LoadMaps
  \/ LoadProducts
  \/ ProcessProduct
  \/ StartDedup
  \/ DedupStep
  \/ FinishDedup
  \/ SaveOutput
  \/ PrintReport

Spec == Init /\ [][Next]_vars

(***************************************************************************)
(* Single calls of the classifier functions                                *)
(***************************************************************************)

\* The most words of a generated name or category phrase.
MaxWords == 2

\* The largest numeric Price of a generated product.
MaxPrice == 31

\* The phrases of exactly n words of the vocabulary, joined by single spaces.
RECURSIVE PhrasesOfLen(_, _)
PhrasesOfLen(vocabulary, n) ==
  IF n = 0 THEN {""}
  ELSE IF n = 1 THEN vocabulary
  ELSE {p \o " " \o w : p \in PhrasesOfLen(vocabulary, n - 1), w \in vocabulary}

Phrases(vocabulary, n) == UNION {PhrasesOfLen(vocabulary, m) : m \in 0..n}

\* Names given to map_product_type.
TypeNames == Phrases({"Lip", "balm", "Tulip", "balms", "mask", "clay"}, MaxWords)

\* Synonym maps given to map_product_type: one lists a key before a longer
\* key that contains it, one holds two keys of the same length.
SynonymMaps ==
  { SynonymsFile,
    << <<"lip balm", "Lip Balm">>, <<"balm lip", "Lip Butter">>,
       <<"Clay Mask", "Clay Mask">> >> }

ExistingTypes ==
  {Str(""), Str("Other"), Str(" Other "), Str(" "), Str(" Lip Gloss "), Null}

CategoryLists ==
  {List(<<>>), List(<<Str("Lip Balm")>>), List(<<Str("Soap"), Str("Tulip Balms")>>)}

\* Calls for a lip balm named either way round, with no categories, no
\* vendor type and synonym maps that hold no key of the name.
LipBalmCalls ==
  [fn : {"map_product_type"}, name : {"Shea Lip Balm", "Shea Balm for Lip"},
   description : {""}, categories : {List(<<>>)},
   product_type_synonyms : {<<>>, << <<"oil", "Body Oil">> >>},
   existing_product_type : {Str("")}]

\* Calls for cleansers named with and without the face, after and before
\* the word of an earlier pattern, with and without a synonym for them.
CleanserCalls ==
  [fn : {"map_product_type"},
   name : {"Gentle Cleanser for Face", "Facial Cleanser", "Face-Cleanser & Facial Kit",
           "Clay Mask Cleanser Face", "Cleanser Facials"},
   description : {""}, categories : {List(<<>>)},
   product_type_synonyms : {<<>>, << <<"face cleanser", "Face Cleanser">> >>},
   existing_product_type : {Str(""), Str("Other")}]

MapProductTypeCalls ==
  [fn : {"map_product_type"}, name : TypeNames, description : {"", "lip"},
   categories : CategoryLists, product_type_synonyms : SynonymMaps,
   existing_product_type : ExistingTypes]
  \cup LipBalmCalls \cup CleanserCalls

\* Category maps given to the category mappers.
CategoryMaps ==
  { CategoryMapFile,
    << <<"care", "Body Care">>, <<"men", "Men's Care">>, <<"gift", "Gifts">> >> }

\* Category and name texts given to the category mappers.
CategoryTexts ==
  Phrases({"Men", "women", "men's", "menstrual", "care", "gift/men", "(men)"},
          MaxWords)

MapMainCategoryCalls ==
  [fn : {"map_main_category"},
   categories : {List(<<Str(t)>>) : t \in CategoryTexts},
   subcategories : {Str(""), Str("Lip Care")},
   main_category_map : CategoryMaps]

InferCategoryCalls ==
  [fn : {"infer_category_from_name"}, name : CategoryTexts, description : {""},
   main_category_map : CategoryMaps]

\* Raw products given to refine_category.
RefineProducts ==
  { Obj(("Name" :> Str(n)) @@ ("Main Category" :> Str(m)) @@
        ("Subcategory 1" :> Str(s1)) @@ ("Product Type" :> Str(t))) :
      n \in {"Graphic Tee", "YONI Steam Herbs", "Beard Vitamin", "AA Batteries"},
      m \in {"Clothing", "Pet Supplies"},
      s1 \in {"Men's Accessories", "Women's Bridal", "Women's & Men's",
              "Baby Women's & Men's", "Hats", "Kids' & Men's"},
      t \in {"", "Menstrual Cup"} }
  \cup { Obj("Name" :> Str(n)) :
           n \in {"Planner", "AA Battery", "Charger Pack", "Batteries Guide"} }

RefineCategoryCalls ==
  [fn : {"refine_category"},
   main_category : {"Clothing", "Health & Wellness", "Accessories", "Hair Care"},
   product : RefineProducts,
   product_type : {"", "Other", "Feminine Wash"}]

\* Raw products given to normalize_product: every Price and Source shape.
PricedProducts ==
  { Obj(("Name" :> Str("Shea Lip Balm")) @@ ("Price" :> p) @@ ("Source" :> src)) :
      p \in {Num(n) : n \in (-2)..MaxPrice}
            \cup {Str("3000"), Str("1000"), Str(" 45 "), Str("-1500"), Str("+7"),
                  Str("abc"), Str(""), Str("N/A"), Null},
      src \in {Str("nubanbeauty.com"), Str("yangabeauty.com"), Str("other.com"),
               Str("Nubanbeauty.com"), Null} }
  \cup { Obj(("Name" :> Str("Shea Lip Balm")) @@ ("Source" :> Str("nubanbeauty.com"))),
         Obj(("Name" :> Str("Shea Lip Balm")) @@ ("Price" :> Str("3000"))),
         Obj(("Name" :> Str("Shea Lip Balm")) @@ ("id" :> Str("a1"))),
         Obj(("Name" :> Str("Shea Lip Balm")) @@ ("id" :> Num(12))),
         Obj(("Name" :> Str("Shea <b>Lip</b> Balm")) @@ ("Company" :> Str("Acme"))) }

NormalizeProductCalls ==
  [fn : {"normalize_product"}, product : PricedProducts,
   main_category_map : {CategoryMapFile}, product_type_synonyms : {SynonymsFile},
   seed : HashSeeds]

\* The longest text given to normalize_text.
MaxTextLen == 6

\* The characters of the texts given to normalize_text.
TextAlphabet == {"<", ">", " ", "B"}

\* The texts of at most n characters of the alphabet.
RECURSIVE TextsUpTo(_)
TextsUpTo(n) ==
  IF n = 0 THEN {""}
  ELSE TextsUpTo(n - 1)
       \cup {t \o c : t \in TextsUpTo(n - 1), c \in TextAlphabet}

NormalizeTextCalls ==
  [fn : {"normalize_text"},
   text : {Str(t) : t \in TextsUpTo(MaxTextLen)} \cup {Null, Num(0)}]

\* Names given to extract_form.
FormNames == Phrases({"Face", "Serum", "Oil", "Cream", "Soap", "Balm"}, MaxWords)

ExtractFormCalls ==
  [fn : {"extract_form"}, name : FormNames, description : {"", "with serum"}]

\* Names given to extract_tags: short phrases, a name that repeats a token
\* before five further ones, and a name of seven different tokens.
TagNames ==
  Phrases({"Shea", "the", "Oil", "of"}, MaxWords)
  \cup {"Shea Shea Butter Cream Lotion Balm Wash",
        "Shea Butter Cream Lotion Balm Wash Soap",
        "Shea Butter for Lip"}

\* Categories given to extract_tags: none, a list of up to four, one string.
TagCategories ==
  {Null, List(<<>>), List(<<Str("Lip Care")>>),
   List(<<Str("Lip Care"), Str(" Body  Care"), Str("Gifts"), Str("Hair")>>),
   List(<<Str("Shea"), Str("shea "), Str("Gifts")>>),
   Str("Lip <b>Care</b>")}

ExtractTagsCalls ==
  [fn : {"extract_tags"}, name : TagNames, description : {""},
   categories : TagCategories]

UnitInit ==
  /\ call \in MapProductTypeCalls \cup MapMainCategoryCalls \cup InferCategoryCalls
              \cup RefineCategoryCalls \cup NormalizeProductCalls
              \cup NormalizeTextCalls \cup ExtractFormCalls
              \cup ExtractTagsCalls
  /\ returned = FALSE
  /\ ret = ""
  /\ input_exists = FALSE
  /\ maps_loadable = FALSE
  /\ data = List(<<>>)
  /\ hash_seed = 0
  /\ pc = "done"
  /\ main_category_map = <<>>
  /\ product_type_synonyms = <<>>
  /\ products = <<>>
  /\ i = 0
  /\ normalized_products = <<>>
  /\ stats = EmptyStats
  /\ errors = <<>>
  /\ seen_ids = {}
  /\ deduped_products = <<>>
  /\ k = 0
  /\ output_file = [written |-> FALSE, lines |-> <<>>]

\* The call returns r.
Return(r) ==
  /\ ~returned
  /\ returned' = TRUE
  /\ ret' = r
  /\ UNCHANGED <<call, batch_vars>>

CallMapProductType ==
  /\ call.fn = "map_product_type"
  /\ ~map_product_type_raises(call.existing_product_type)
  /\ Return(map_product_type(call.name, call.description, call.categories,
                             call.product_type_synonyms, call.existing_product_type))

CallMapMainCategory ==
  /\ call.fn = "map_main_category"
  /\ Return(map_main_category(call.categories, call.subcategories,
                              call.main_category_map))

CallInferCategory ==
  /\ call.fn = "infer_category_from_name"
  /\ Return(infer_category_from_name(call.name, call.description,
                                     call.main_category_map))

CallRefineCategory ==
  /\ call.fn = "refine_category"
  /\ ~refine_category_raises(call.product)
  /\ Return(refine_category(call.main_category, call.product, call.product_type))

CallNormalizeProduct ==
  /\ call.fn = "normalize_product"
  /\ ~normalize_product_raises(call.product)
  /\ Return(normalize_product(call.product, call.main_category_map,
                              call.product_type_synonyms, call.seed))

CallNormalizeText ==
  /\ call.fn = "normalize_text"
  /\ Return(normalize_text(call.text))

CallExtractForm ==
  /\ call.fn = "extract_form"
  /\ Return(extract_form(call.name, call.description))

CallExtractTags ==
  /\ call.fn = "extract_tags"
  /\ Return(extract_tags(call.name, call.description, call.categories))

UnitNext ==
  \/ CallExtractTags
  \/ CallMapProductType
  \/ CallMapMainCategory
  \/ CallInferCategory
  \/ CallRefineCategory
  \/ CallNormalizeProduct
  \/ CallNormalizeText
  \/ CallExtractForm

UnitSpec == UnitInit /\ [][UnitNext]_vars

(***************************************************************************)
(* Properties of the batch                                                 *)
(***************************************************************************)

\* The n-th input record normalizes without raising.
Succeeds(n) == n \in 1..Len(products) /\ ~normalize_product_raises(products[n])

\* The normalized value of every input record that normalizes, by position.
NormalizedInputs ==
  [n \in {m \in 1..Len(products) : Succeeds(m)} |->
     normalize_product(products[n], main_category_map, product_type_synonyms,
                       hash_seed)]

\* Given those values, n is the first position that normalizes with its id.
FirstWithItsId(values, n) ==
  /\ n \in DOMAIN values
  /\ \A m \in DOMAIN values : m < n => values[m].id # values[n].id

\* The values at the positions 1..n that are in keep, in input order.
RECURSIVE ValuesAt(_, _, _)
ValuesAt(values, keep, n) ==
  IF n = 0 THEN <<>>
  ELSE ValuesAt(values, keep, n - 1) \o (IF n \in keep THEN <<values[n]>> ELSE <<>>)

\* The batch has run to its end and written its output.
BatchFinished == pc = "done" /\ output_file.written

\* C1: when the batch finishes, the output holds exactly one record per id:
\* the normalized value of the first input record that normalized
\* successfully with that id, the survivors in input order.
C1_DedupKeepsFirst ==
  BatchFinished =>
    LET values == NormalizedInputs
        firsts == {n \in DOMAIN values : FirstWithItsId(values, n)}
    IN /\ output_file.lines = ValuesAt(values, firsts, Len(products))
       /\ normalized_products = output_file.lines
       /\ \A a, b \in DOMAIN output_file.lines :
            a # b => output_file.lines[a].id # output_file.lines[b].id

\* A finished batch that discarded a later record with an id already seen
\* and kept at least two records.
C1_Witness ==
  /\ BatchFinished
  /\ Len(output_file.lines) >= 2
  /\ LET values == NormalizedInputs IN
       \E n \in DOMAIN values : ~FirstWithItsId(values, n)

\* The Counter a list of records gives for one field: every label that
\* occurs, with the number of records carrying it.
CountOf(records, field) ==
  [l \in {records[n][field] : n \in DOMAIN records} |->
     Cardinality({n \in DOMAIN records : records[n][field] = l})]

\* C2: when the batch finishes, each of the four Counters equals, label by
\* label, the number of records of the final output carrying that label.
C2_StatsMatchOutput ==
  BatchFinished =>
    /\ stats.main_categories = CountOf(output_file.lines, "main_category")
    /\ stats.product_types = CountOf(output_file.lines, "product_type")
    /\ stats.forms = CountOf(output_file.lines, "form")
    /\ stats.set_bundles = CountOf(output_file.lines, "set_bundle")

\* A finished batch whose discarded duplicate carried a product type that
\* no surviving record carries.
C2_Witness ==
  /\ BatchFinished
  /\ LET values == NormalizedInputs IN
       \E n \in DOMAIN values :
         /\ ~FirstWithItsId(values, n)
         /\ values[n].product_type \notin DOMAIN stats.product_types

\* The 0-based indexes of the records among the first n that raise.
RECURSIVE FailedIndexes(_)
FailedIndexes(n) ==
  IF n = 0 THEN <<>>
  ELSE FailedIndexes(n - 1) \o (IF Succeeds(n) THEN <<>> ELSE <<n - 1>>)

\* The loop over the input has ended and the dedup loop has not begun.
LoopEnded == pc = "dedup" /\ k = 0

\* C3: a record that raises in the loop is skipped and reported with its
\* index, and the loop goes on: when it ends every record was handled, the
\* pre-dedup list holds the normalized value of every record that did not
\* raise, in input order, and the indexes of the others were reported.
C3_FailuresAreSkipped ==
  LoopEnded =>
    LET values == NormalizedInputs IN
      /\ i = Len(products)
      /\ normalized_products = ValuesAt(values, DOMAIN values, Len(products))
      /\ errors = FailedIndexes(Len(products))

\* The loop has ended, a record raised, and a later record was normalized.
C3_Witness ==
  /\ LoopEnded
  /\ errors # <<>>
  /\ \E n \in 1..Len(products) : n > errors[1] + 1 /\ Succeeds(n)

(***************************************************************************)
(* Properties of map_product_type                                          *)
(***************************************************************************)

\* A call of map_product_type has returned.
MapProductTypeReturned == returned /\ call.fn = "map_product_type"

\* The cleaned name and description text of a call of map_product_type.
CallText(c) == CleanText(c.name \o " " \o c.description)

\* C4 as stated: whenever the vendor's product type is non-empty and is not
\* "Other", map_product_type returns it trimmed of surrounding whitespace.
C4_NonEmptyIsTrusted ==
  (/\ MapProductTypeReturned
   /\ IsStr(call.existing_product_type)
   /\ Val(call.existing_product_type) # ""
   /\ Val(call.existing_product_type) # "Other")
  => ret = Strip(Val(call.existing_product_type))

\* C4: whenever the vendor's product type, once trimmed of surrounding
\* whitespace, is non-empty and is not "Other", map_product_type returns that
\* trimmed value, whatever the name, description, categories and synonyms.
C4_TrimmedIsTrusted ==
  (/\ MapProductTypeReturned
   /\ IsStr(call.existing_product_type)
   /\ Strip(Val(call.existing_product_type)) # ""
   /\ Strip(Val(call.existing_product_type)) # "Other")
  => ret = Strip(Val(call.existing_product_type))

\* A vendor type with surrounding blanks came back trimmed although a
\* synonym occurs in the name as a bounded phrase.
C4_Witness ==
  /\ MapProductTypeReturned
  /\ call.existing_product_type = Str(" Lip Gloss ")
  /\ ret = "Lip Gloss"
  /\ BoundedHits(call.product_type_synonyms, CallText(call)) # {}

\* Whether strategy s of map_product_type has a match for the call c.
StrategyMatches(s, c) ==
  LET text == CallText(c)
      sorted_synonyms == SortedLongestFirst(c.product_type_synonyms)
  IN CASE s = 1 -> TrustExisting(c.existing_product_type)
       [] s = 2 -> BoundedHits(sorted_synonyms, text) # {}
       [] s = 3 -> SubsetHits(sorted_synonyms, text) # {}
       [] s = 4 -> SubstringHits(sorted_synonyms, text) # {}
       [] s = 5 -> CategoryFallbackApplies(c.categories, sorted_synonyms)
       [] s = 6 -> SmartPatternType(text) # "Other"

\* The label strategy s produces for the call c when it has a match.
StrategyLabel(s, c) ==
  LET text == CallText(c)
      sorted_synonyms == SortedLongestFirst(c.product_type_synonyms)
  IN CASE s = 1 -> Strip(Val(c.existing_product_type))
       [] s = 2 -> FirstLabel(sorted_synonyms, BoundedHits(sorted_synonyms, text), "Other")
       [] s = 3 -> FirstLabel(sorted_synonyms, SubsetHits(sorted_synonyms, text), "Other")
       [] s = 4 -> FirstLabel(sorted_synonyms, SubstringHits(sorted_synonyms, text), "Other")
       [] s = 5 -> CategoryFallbackType(c.categories, sorted_synonyms)
       [] s = 6 -> SmartPatternType(text)

\* The lowest-numbered strategy with a match for the call c, 0 when none has.
DecidingStrategy(c) ==
  IF \E s \in 1..6 : StrategyMatches(s, c)
  THEN CHOOSE s \in 1..6 :
         StrategyMatches(s, c) /\ \A t \in 1..(s - 1) : ~StrategyMatches(t, c)
  ELSE 0

\* C5: the six strategies apply in fixed priority order and the first with a
\* match wins: the label returned is the one of the lowest-numbered strategy
\* that has any match, and the result is "Other" exactly when none matches.
C5_FirstStrategyWins ==
  MapProductTypeReturned =>
    LET s == DecidingStrategy(call) IN
      /\ s # 0 => ret = StrategyLabel(s, call)
      /\ (ret = "Other") <=> (s = 0)

\* The bounded phrase of strategy 2 decided a call for which the pattern
\* table of strategy 6 holds a different label.
C5_Witness ==
  /\ MapProductTypeReturned
  /\ DecidingStrategy(call) = 2
  /\ SmartPatternType(CallText(call)) \notin {"Other", ret}

\* Whether the key matches the text by the test of strategy s (2, 3 or 4).
StrategyKeyMatches(s, key, text) ==
  CASE s = 2 -> BoundedSynonym(key, text)
    [] s = 3 -> SubsetSynonym(key, text)
    [] s = 4 -> SubstringSynonym(key, text)

\* Whether the key matches the text by any of the strategies 2, 3 and 4.
KeyMatchesText(key, text) == \E s \in 2..4 : StrategyKeyMatches(s, key, text)

\* The pairs <<a, b>> of positions of the map whose key at a is a proper
\* substring of the key at b.
NestedKeys(synonyms) ==
  {pair \in (DOMAIN synonyms) \X (DOMAIN synonyms) :
     /\ Len(synonyms[pair[1]][1]) < Len(synonyms[pair[2]][1])
     /\ Contains(Lower(synonyms[pair[2]][1]), Lower(synonyms[pair[1]][1]))}

\* The result is the label of one of the keys at the positions matching
\* that is at least as long as the key at position b.
PrefersAtLeast(synonyms, b, matching) ==
  \E m \in matching :
    /\ Len(synonyms[m][1]) >= Len(synonyms[b][1])
    /\ ret = synonyms[m][2]

\* C6 as stated: for two keys one of which is a substring of the other, when
\* both match the text by any of the matching strategies and the vendor's
\* type does not decide, the label returned is that of the longer key (or of
\* a matching key longer still), never that of the shorter one.
C6_LongerKeyPreferred ==
  (MapProductTypeReturned /\ ~TrustExisting(call.existing_product_type)) =>
    LET text == CallText(call)
        synonyms == call.product_type_synonyms
    IN \A pair \in NestedKeys(synonyms) :
         (/\ KeyMatchesText(synonyms[pair[1]][1], text)
          /\ KeyMatchesText(synonyms[pair[2]][1], text))
         => PrefersAtLeast(synonyms, pair[2],
                           {m \in DOMAIN synonyms : KeyMatchesText(synonyms[m][1], text)})

\* C6: for two keys one of which is a substring of the other, when both match
\* the text by the test of the strategy that decides the call (the first of
\* the strategies 2, 3 and 4 with any match), the label returned is that of
\* the longer key, or of a key longer still that matches by the same test.
C6_LongerKeyPreferredWithinStrategy ==
  (MapProductTypeReturned /\ DecidingStrategy(call) \in 2..4) =>
    LET s == DecidingStrategy(call)
        text == CallText(call)
        synonyms == call.product_type_synonyms
    IN \A pair \in NestedKeys(synonyms) :
         (/\ StrategyKeyMatches(s, synonyms[pair[1]][1], text)
          /\ StrategyKeyMatches(s, synonyms[pair[2]][1], text))
         => PrefersAtLeast(synonyms, pair[2],
                           {m \in DOMAIN synonyms :
                              StrategyKeyMatches(s, synonyms[m][1], text)})

\* Strategy 2 decided a call whose map lists a key before a longer key that
\* contains it, both being bounded phrases of the text, and the longer key's
\* label came back.
C6_Witness ==
  /\ MapProductTypeReturned
  /\ DecidingStrategy(call) = 2
  /\ \E pair \in NestedKeys(call.product_type_synonyms) :
       /\ pair[1] < pair[2]
       /\ BoundedSynonym(call.product_type_synonyms[pair[1]][1], CallText(call))
       /\ BoundedSynonym(call.product_type_synonyms[pair[2]][1], CallText(call))
       /\ ret = call.product_type_synonyms[pair[2]][2]
       /\ ret # call.product_type_synonyms[pair[1]][2]

(***************************************************************************)
(* Properties of the category mappers                                      *)
(***************************************************************************)

\* The key occurs in the text as a standalone token: each side of the
\* occurrence is an edge of the text, whitespace or punctuation.
StandaloneToken(key, text) ==
  \E n \in 1..(Len(text) - Len(key) + 1) :
    /\ SubSeq(text, n, n + Len(key) - 1) = key
    /\ (n = 1 \/ Char(text, n - 1) \notin WordChars)
    /\ (n + Len(key) - 1 = Len(text) \/ Char(text, n + Len(key)) \notin WordChars)

\* The keys of a category map.
KeysOf(category_map) == {category_map[n][1] : n \in DOMAIN category_map}

\* C7: word-boundary law. In map_main_category and infer_category_from_name
\* a key of the category map matches a text if and only if it occurs in it
\* as a standalone token, so the result is "Other" exactly when no key
\* occurs as a standalone token; a key that only occurs inside a longer word
\* never matches.
C7_WordBoundaryLaw ==
  /\ (returned /\ call.fn = "infer_category_from_name") =>
       LET text == normalize_text(Str(call.name \o " " \o call.description)) IN
         /\ \A key \in KeysOf(call.main_category_map) :
              InferKeyMatches(key, text) <=> StandaloneToken(key, text)
         /\ (ret # "Other") <=>
              \E key \in KeysOf(call.main_category_map) : StandaloneToken(key, text)
  /\ (returned /\ call.fn = "map_main_category") =>
       LET all_cats == AllCats(call.categories, call.subcategories) IN
         /\ \A c \in DOMAIN all_cats :
              \A key \in KeysOf(call.main_category_map) :
                CategoryKeyMatches(key, normalize_text(all_cats[c]))
                  <=> StandaloneToken(key, normalize_text(all_cats[c]))
         /\ (ret # "Other") <=>
              \E c \in DOMAIN all_cats :
                \E key \in KeysOf(call.main_category_map) :
                  StandaloneToken(key, normalize_text(all_cats[c]))

(***************************************************************************)
(* Properties of refine_category                                           *)
(***************************************************************************)

\* A call of refine_category has returned.
RefineCategoryReturned == returned /\ call.fn = "refine_category"

\* The combined text of the call (name, computed type, raw type) holds a
\* feminine or intimate-care keyword.
FeminineKeywordPresent ==
  \E kw \in womens_care_kw :
    Contains(NameAndType(call.product, call.product_type), kw)

\* C8: refinement precedence. refine_category returns "Women's Care" whenever
\* the combined text of name, computed product type and raw product type
\* holds a feminine or intimate-care keyword, for every provisional
\* main_category: no other branch comes before that check.
C8_WomensCareFirst ==
  (RefineCategoryReturned /\ FeminineKeywordPresent) => ret = "Women's Care"

\* A Clothing call whose raw categories hold a kid or pet indicator came
\* back as "Women's Care" because of a keyword in its text.
C8_Witness ==
  /\ RefineCategoryReturned
  /\ FeminineKeywordPresent
  /\ call.main_category = "Clothing"
  /\ ContainsAny(RawCombined(call.product), kids_indicators)
  /\ ret = "Women's Care"

\* C9: for a provisional main_category "Clothing" and no feminine-care
\* keyword, refine_category decides in the order kid or pet indicators, then
\* women's indicators, then the "men's" token: a kid or pet indicator gives
\* "Baby & Kids"; past it, "Men's Clothing" comes back only for a raw text
\* with "men's" and no women's indicator, "Women's Clothing" when both the
\* "women's" and "men's" tokens are present, and "Women's Clothing" when no
\* indicator is present at all.
C9_ClothingOrder ==
  (RefineCategoryReturned /\ call.main_category = "Clothing"
     /\ ~FeminineKeywordPresent) =>
    LET raw == RawCombined(call.product)
        kid == \E kw \in kids_indicators : Contains(raw, kw)
        women == \E kw \in womens_indicators : Contains(raw, kw)
        mens == Contains(raw, "men's")
    IN /\ kid => ret = "Baby & Kids"
       /\ (ret = "Men's Clothing") <=> (mens /\ ~kid /\ ~women)
       /\ (~kid /\ women) => ret = "Women's Clothing"
       /\ (~kid /\ Contains(raw, "women's") /\ mens) => ret = "Women's Clothing"
       /\ (~kid /\ ~women /\ ~mens) => ret = "Women's Clothing"

\* A Clothing call whose raw text names women's and men's as two tokens, with
\* no kid or pet indicator, came back as "Women's Clothing".
C9_Witness ==
  /\ RefineCategoryReturned
  /\ call.main_category = "Clothing"
  /\ ~FeminineKeywordPresent
  /\ Contains(RawCombined(call.product), "women's")
  /\ Contains(RawCombined(call.product), " men's")
  /\ ~ContainsAny(RawCombined(call.product), kids_indicators)
  /\ ret = "Women's Clothing"

(***************************************************************************)
(* Properties of normalize_product                                         *)
(***************************************************************************)

\* A call of normalize_product has returned.
NormalizeProductReturned == returned /\ call.fn = "normalize_product"

\* The Price of the call's record as the try/except parses it.
ParsedPrice == ParsePrice(Get(call.product, "Price", Str("0")))

\* The record's Source is one of the known foreign-currency sources.
ForeignSource ==
  /\ "Source" \in DOMAIN Val(call.product)
  /\ TypeOf(Val(call.product)["Source"]) = "str"
  /\ Val(Val(call.product)["Source"]) \in NGN_SOURCES

\* C10: currency law. For a record whose Source is a known foreign-currency
\* source and whose parsed price is > 0, the price returned is the parsed
\* price times 1/1500 rounded to 2 decimals: the hundredth nearest to
\* price/1500. For every other record it is the parsed price unchanged.
C10_CurrencyLaw ==
  NormalizeProductReturned =>
    IF ForeignSource /\ ParsedPrice > 0
    THEN /\ 2 * (NgnPerUsd * ret.price - PriceScale * ParsedPrice) <= NgnPerUsd
         /\ 2 * (PriceScale * ParsedPrice - NgnPerUsd * ret.price) <= NgnPerUsd
    ELSE ret.price = PriceScale * ParsedPrice

\* A foreign-source record with a positive price was converted, and the
\* rounding went up to the next hundredth.
C10_Witness ==
  /\ NormalizeProductReturned
  /\ ForeignSource
  /\ ParsedPrice > 0
  /\ NgnPerUsd * ret.price > PriceScale * ParsedPrice

\* C11: the price of every record normalize_product returns is non-negative,
\* whatever the raw Price is: a number, numeric text (negative numbers
\* included), text that is no number, or missing.
C11_PriceNonNegative ==
  NormalizeProductReturned => ret.price >= 0

\* C12: a malformed field never makes normalize_product raise. When the loop
\* of main ends no record was skipped as a failure: every input record was
\* normalized into a record, a Name that is no string giving the name "" and
\* a Price that does not parse giving the price 0.
C12_MalformedFieldsCoerced ==
  LoopEnded =>
    /\ errors = <<>>
    /\ Len(normalized_products) = Len(products)
    /\ \A n \in 1..Len(products) :
         /\ ~IsStr(Get(products[n], "Name", Str("")))
              => normalized_products[n].name = ""
         /\ ParsePrice(Get(products[n], "Price", Str("0"))) = 0
              => normalized_products[n].price = 0

\* The setup of the run fails: the input file is missing, or a map file is
\* missing or does not parse.
SetupFails == ~input_exists \/ ~maps_loadable

\* C13: fatal setup failure. When the input file is missing, or a map file
\* is missing or unparsable, main stops before it normalizes any record: at
\* every point of the run no record has been handled or normalized and no
\* output file has been written.
C13_SetupFailureEmitsNothing ==
  SetupFails =>
    /\ pc \in {"check_input", "load_maps", "done"}
    /\ i = 0
    /\ normalized_products = <<>>
    /\ deduped_products = <<>>
    /\ ~output_file.written
    /\ output_file.lines = <<>>

\* A run whose input file exists and holds records has ended at the failure
\* to load the maps, with nothing written.
C13_Witness ==
  /\ pc = "done"
  /\ input_exists
  /\ ~maps_loadable
  /\ ProductsOf(data) # <<>>
  /\ ~output_file.written

(***************************************************************************)
(* Properties of normalize_text, extract_form and the ids                  *)
(***************************************************************************)

\* A call of normalize_text has returned.
NormalizeTextReturned == returned /\ call.fn = "normalize_text"

\* C14: normalize_text is idempotent: normalizing its result again gives the
\* same text. The result is lowercased, trimmed and free of whitespace runs,
\* and an empty or missing input gives the empty string.
C14_NormalizeTextIdempotent ==
  NormalizeTextReturned =>
    /\ normalize_text(Str(ret)) = ret
    /\ Lower(ret) = ret
    /\ Strip(ret) = ret
    /\ CollapseSpaces(ret) = ret
    /\ ~Truthy(call.text) => ret = ""

\* A text with a tag after a blank and uppercase letters on both sides came
\* back as two lowercase words.
C14_Witness ==
  /\ NormalizeTextReturned
  /\ IsStr(call.text)
  /\ Contains(Val(call.text), "B <B>B")
  /\ ret = "b b"

\* C15: for the name "Shea Lip Balm" with an empty description, no
\* categories and no vendor product type, when no synonym key matches the
\* text, map_product_type returns "Lip Balm" through the pattern of the
\* table that combines "balm" and "lip"; for the same name extract_form
\* returns "balm" and detect_set_bundle returns "single".
C15_SheaLipBalm ==
  (/\ MapProductTypeReturned
   /\ call.name = "Shea Lip Balm"
   /\ call.description = ""
   /\ ~Truthy(call.categories)
   /\ call.existing_product_type = Str("")
   /\ \A s \in 2..4 :
        \A n \in DOMAIN call.product_type_synonyms :
          ~StrategyKeyMatches(s, call.product_type_synonyms[n][1], CallText(call)))
  => /\ ret = "Lip Balm"
     /\ extract_form(call.name, call.description) = "balm"
     /\ detect_set_bundle(call.name, call.description) = "single"

\* C16: the id normalize_product assigns is deterministic. It is the string
\* form of the raw record's id when the record has one; otherwise it is a
\* function of the cleaned name and the company only, so normalizing the
\* same record again, in this or in another run of the program, yields the
\* same id.
C16_IdDeterministic ==
  NormalizeProductReturned =>
    IF "id" \in DOMAIN Val(call.product)
    THEN ret.id = PyStr(Val(call.product)["id"])
    ELSE \A seed \in HashSeeds :
           normalize_product(call.product, call.main_category_map,
                             call.product_type_synonyms, seed).id = ret.id

\* The names, cut to 50 characters, of the records of a list whose product
\* type is "Other", in the order of the list.
RECURSIVE UnknownNamesOf(_)
UnknownNamesOf(records) ==
  IF records = <<>> THEN <<>>
  ELSE (IF records[1].product_type = "Other"
        THEN <<SubSeq(records[1].name, 1,
                      IF Len(records[1].name) < 50 THEN Len(records[1].name) ELSE 50)>>
        ELSE <<>>)
       \o UnknownNamesOf(Tail(records))

\* C17: unknown_types reflects the final output: when the batch finishes it
\* holds exactly the truncated names of the records of the deduplicated
\* output whose product type is "Other", and no name that only a discarded
\* duplicate contributed.
C17_UnknownTypesMatchOutput ==
  BatchFinished => stats.unknown_types = UnknownNamesOf(output_file.lines)

\* The label of the longest key of the map that passes the test at one of
\* the positions matching of the map; of keys of that length the first of the
\* map; "Other" when matching is empty.
LongestMatchLabel(category_map, matching) ==
  IF matching = {} THEN "Other"
  ELSE category_map[CHOOSE m \in matching :
                      \A o \in matching :
                        \/ Len(category_map[o][1]) < Len(category_map[m][1])
                        \/ Len(category_map[o][1]) = Len(category_map[m][1]) /\ m <= o][2]

\* C18: infer_category_from_name runs the same bounded scan as
\* map_main_category, against the name and description text: a key matches
\* there exactly when it would match the same normalized text as a category
\* phrase in map_main_category, and the label returned is that of the
\* longest matching key, so both functions agree on the same text.
C18_InferScansLikeCategories ==
  (returned /\ call.fn = "infer_category_from_name") =>
    LET text == normalize_text(Str(call.name \o " " \o call.description))
        category_map == call.main_category_map
    IN /\ \A n \in DOMAIN category_map :
            InferKeyMatches(category_map[n][1], text)
              <=> CategoryKeyMatches(category_map[n][1], text)
       /\ ret = LongestMatchLabel(category_map,
                  {n \in DOMAIN category_map : InferKeyMatches(category_map[n][1], text)})
       /\ ret = map_main_category(List(<<Str(text)>>), Str(""), category_map)

\* A call of map_main_category has returned.
MapMainCategoryReturned == returned /\ call.fn = "map_main_category"

\* The positions of the map whose key matches the phrase.
PhraseHits(category_map, phrase) ==
  {n \in DOMAIN category_map :
     CategoryKeyMatches(category_map[n][1], normalize_text(phrase))}

\* C19: map_main_category scans the flattened phrases, categories first and
\* subcategories after, in input order, and for each phrase the keys longest
\* first: the result is the label of the longest key matching the first phrase
\* that has any matching key, even if a later phrase matches a longer key,
\* and it is "Other" exactly when no phrase matches any key.
C19_FirstPhraseLongestKey ==
  MapMainCategoryReturned =>
    LET all_cats == AllCats(call.categories, call.subcategories)
        category_map == call.main_category_map
        matched == {c \in DOMAIN all_cats : PhraseHits(category_map, all_cats[c]) # {}}
    IN /\ matched # {} =>
            LET first == CHOOSE c \in matched : \A d \in matched : c <= d
            IN ret = LongestMatchLabel(category_map,
                                       PhraseHits(category_map, all_cats[first]))
       /\ (ret = "Other") <=> (matched = {})

\* The first phrase matched a key and decided, although a later phrase
\* matches a longer key with another label.
C19_Witness ==
  /\ MapMainCategoryReturned
  /\ LET all_cats == AllCats(call.categories, call.subcategories)
         category_map == call.main_category_map
     IN /\ Len(all_cats) = 2
        /\ PhraseHits(category_map, all_cats[1]) # {}
        /\ \E n \in PhraseHits(category_map, all_cats[2]) :
             /\ category_map[n][2] # ret
             /\ \A m \in PhraseHits(category_map, all_cats[1]) :
                  Len(category_map[m][1]) < Len(category_map[n][1])
        /\ ret = LongestMatchLabel(category_map,
                                   PhraseHits(category_map, all_cats[1]))

\* The position of the "serum" entry in the table of forms.
SerumEntry == CHOOSE n \in DOMAIN Forms : Forms[n][1] = "serum"

\* C20: extract_form checks the form "serum" before the form family that
\* lists "serum" as an alias: for every text that contains "serum" and no
\* keyword of an entry declared before the serum entry, that alias apart,
\* extract_form returns "serum".
C20_SerumBeforeFamily ==
  (/\ returned
   /\ call.fn = "extract_form"
   /\ LET text == Lower(call.name \o " " \o call.description) IN
        /\ Contains(text, "serum")
        /\ \A n \in 1..(SerumEntry - 1) :
             \A keyword \in Forms[n][2] \ {"serum"} : ~Contains(text, keyword))
  => ret = "serum"

(***************************************************************************)
(* extract_tags                                                            *)
(***************************************************************************)

ExtractTagsReturned == returned /\ call.fn = "extract_tags"

\* The tokens of ws with every repetition of an earlier token removed.
RECURSIVE FirstOccurrences(_)
FirstOccurrences(ws) ==
  IF ws = <<>> THEN <<>>
  ELSE LET front == FirstOccurrences(SubSeq(ws, 1, Len(ws) - 1))
           last == ws[Len(ws)]
       IN IF last \in SeqToSet(front) THEN front ELSE Append(front, last)

\* The eligible name tokens of the call, in text order.
EligibleTokens == MeaningfulWords(FindWords(Lower(call.name)))

\* The normalized category phrases of the call: the first three of a list,
\* the one phrase of a single value, none when there are no categories.
CategoryPhrases ==
  IF ~Truthy(call.categories) THEN {}
  ELSE IF TypeOf(call.categories) = "list"
  THEN {normalize_text(Val(call.categories)[n]) :
          n \in DOMAIN Take(Val(call.categories), 3)}
  ELSE {normalize_text(call.categories)}

\* C21: extract_tags returns the first 5 distinct eligible name tokens (not
\* stop-words, at least 3 characters), in text order, united with at most 3
\* normalized category phrases; so the tag set never has more than 8 elements
\* and holds 5 name tokens whenever the name has at least 5 distinct eligible
\* tokens.
C21_FirstFiveDistinctTokens ==
  ExtractTagsReturned =>
    LET distinct == FirstOccurrences(EligibleTokens) IN
      /\ ret = SeqToSet(Take(distinct, 5)) \cup CategoryPhrases
      /\ Cardinality(ret) <= 8
      /\ Len(distinct) >= 5 =>
           Cardinality(ret \cap SeqToSet(EligibleTokens)) >= 5

\* The battery and charger keywords of the Accessories branch.
BatteryKeywords == {"battery", "batteries", "charger pack", "battery charger"}

\* C22: for a provisional main_category "Accessories" and no feminine-care
\* keyword, refine_category returns "Home Care" whenever the combined text
\* holds a battery or charger keyword, otherwise "Books & More" when it holds
\* a books or stationery keyword, otherwise "Accessories" unchanged.
C22_AccessoriesSplit ==
  (RefineCategoryReturned /\ call.main_category = "Accessories"
     /\ ~FeminineKeywordPresent) =>
    LET text == NameAndType(call.product, call.product_type) IN
      ret = IF \E kw \in BatteryKeywords : Contains(text, kw) THEN "Home Care"
            ELSE IF \E kw \in books_kw : Contains(text, kw) THEN "Books & More"
            ELSE "Accessories"

(***************************************************************************)
(* The provisional buckets                                                 *)
(***************************************************************************)

\* The buckets the refiner splits.
SplitBuckets == {"Clothing", "Health & Wellness"}

\* The category the mappers give a raw product before refinement.
ProvisionalCategory(product) ==
  LET mapped == map_main_category(ProductCategories(product),
                                  ProductSubcategories(product), main_category_map)
  IN IF mapped = "Other"
     THEN infer_category_from_name(CleanName(Val(Get(product, "Name", Str("")))),
                                   "", main_category_map)
     ELSE mapped

\* C23: no record normalize_product returned, and so no record of the loop's
\* list, of the dedup list or of the written output, has main_category
\* "Clothing" or "Health & Wellness": the refiner runs on every record after
\* the mapping and rewrites these two buckets to one of their split
\* categories.
C23_SplitBucketsNeverSurvive ==
  /\ \A n \in DOMAIN normalized_products :
       normalized_products[n].main_category \notin SplitBuckets
  /\ \A n \in DOMAIN deduped_products :
       deduped_products[n].main_category \notin SplitBuckets
  /\ \A n \in DOMAIN output_file.lines :
       output_file.lines[n].main_category \notin SplitBuckets

\* The written output holds a record mapped to "Clothing" and one mapped to
\* "Health & Wellness", each under one of its split categories.
C23_Witness ==
  /\ BatchFinished
  /\ \E n \in DOMAIN output_file.lines :
       /\ ProvisionalCategory(output_file.lines[n].raw) = "Clothing"
       /\ output_file.lines[n].main_category = "Men's Clothing"
  /\ \E n \in DOMAIN output_file.lines :
       /\ ProvisionalCategory(output_file.lines[n].raw) = "Health & Wellness"
       /\ output_file.lines[n].main_category = "Body Care"

(***************************************************************************)
(* Records without an id                                                   *)
(***************************************************************************)

\* Given the normalized values, the positions a < b hold two records that
\* both lack an id and have the same cleaned name and the same company.
SameNameAndCompany(values, a, b) ==
  /\ a \in DOMAIN values /\ b \in DOMAIN values /\ a < b
  /\ "id" \notin DOMAIN Val(products[a])
  /\ "id" \notin DOMAIN Val(products[b])
  /\ values[a].name = values[b].name
  /\ values[a].company = values[b].company

\* C24: in the batch, two input records that both lack an id and have the
\* same cleaned name and the same company receive the same synthetic id, so
\* deduplication drops the later one, even when their other fields differ:
\* the output holds one record with that id, and it is the first record of
\* the input that normalized with it.
C24_SameNameSameCompanyCollapse ==
  BatchFinished =>
    LET values == NormalizedInputs IN
      \A a, b \in DOMAIN values :
        SameNameAndCompany(values, a, b) =>
          /\ values[a].id = values[b].id
          /\ ~FirstWithItsId(values, b)
          /\ \E n \in DOMAIN output_file.lines :
               /\ output_file.lines[n].id = values[a].id
               /\ \A m \in DOMAIN output_file.lines :
                    output_file.lines[m].id = values[a].id => m = n
               /\ \E f \in DOMAIN values :
                    /\ FirstWithItsId(values, f)
                    /\ f <= a
                    /\ output_file.lines[n] = values[f]

\* A finished batch whose input held two records without id, with the same
\* cleaned name and company and different price, link and category: the
\* output holds the first of them and not the second.
C24_Witness ==
  /\ BatchFinished
  /\ LET values == NormalizedInputs IN
       \E a, b \in DOMAIN values :
         /\ SameNameAndCompany(values, a, b)
         /\ values[a].price # values[b].price
         /\ values[a].product_url # values[b].product_url
         /\ values[a].main_category # values[b].main_category
         /\ \E n \in DOMAIN output_file.lines : output_file.lines[n] = values[a]
         /\ \A n \in DOMAIN output_file.lines : output_file.lines[n] # values[b]

(***************************************************************************)
(* The pattern table of map_product_type                                   *)
(***************************************************************************)

\* The position in the table of the entry with the given label.
EntryOf(label) == CHOOSE n \in DOMAIN smart_patterns : smart_patterns[n].label = label

\* The labels of the table entries up to the n-th.
LabelsUpTo(n) == {smart_patterns[m].label : m \in 1..n}

\* The cleanser+face pattern matches the cleaned text of the call.
CleanserFaceMatches ==
  PatternMatches(smart_patterns[EntryOf("Face Cleanser")], CallText(call),
                 FindWords(CallText(call)))

\* C25: the pattern table of map_product_type (strategy 6) never yields
\* "Face Cleanser": every text matching the cleanser+face pattern also
\* matches the shampoo/cleanser pattern, which stands earlier in the table,
\* so strategy 6 returns "Shampoo" or the label of a still earlier entry, and
\* so does map_product_type whenever strategy 6 decides.
C25_FaceCleanserShadowed ==
  MapProductTypeReturned =>
    LET text == CallText(call) IN
      /\ EntryOf("Shampoo") < EntryOf("Face Cleanser")
      /\ SmartPatternType(text) # "Face Cleanser"
      /\ CleanserFaceMatches =>
           /\ PatternMatches(smart_patterns[EntryOf("Shampoo")], text, FindWords(text))
           /\ SmartPatternType(text) \in LabelsUpTo(EntryOf("Shampoo"))
      /\ DecidingStrategy(call) = 6 =>
           /\ ret # "Face Cleanser"
           /\ CleanserFaceMatches => ret \in LabelsUpTo(EntryOf("Shampoo"))

\* Strategy 6 decided a call whose text matches the cleanser+face pattern,
\* and the call came back as "Shampoo".
C25_Witness ==
  /\ MapProductTypeReturned
  /\ DecidingStrategy(call) = 6
  /\ CleanserFaceMatches
  /\ ret = "Shampoo"

====
